---- MODULE Spec2Model ----
(***************************************************************************)
(* Model of the two command-line todo stores of todo-app-phase-1:          *)
(*   - TodoManager (src/todo-app-phase-1/src/main.py): the JSON-backed     *)
(*     store with priority, category, due date and recurrence;             *)
(*   - TodoCore (src/todo-app-phase-1/main.py): the in-memory store.       *)
(*                                                                         *)
(* Representation of Python values:                                        *)
(*   - a due-date string is the sequence of its '-'-separated numeric      *)
(*     fields: "" is <<>>, "2024-01-31" is <<2024, 1, 31>>, "2024-01" is   *)
(*     <<2024, 1>>;                                                        *)
(*   - an ISO timestamp string (datetime.now().isoformat()) is <<t>>, t    *)
(*     the clock reading; None (and "") is <<>>;                           *)
(*   - a dict is a function from key strings to values.                    *)
(***************************************************************************)
EXTENDS Integers, Sequences, FiniteSets, TLC

VARIABLES
    variant,     \* which program runs: "json" (TodoManager), "memory" (TodoCore),
                 \* "web" (the task routes of the FastAPI backend) or "signup"
                 \* (its signup route)
    todos,       \* TodoManager.todos: the list of TodoItem objects
    next_id,     \* TodoManager.next_id
    file,        \* the storage file todos.json
    tasks,       \* TodoCore.tasks
    core_next_id,\* TodoCore.next_id
    other_todos, \* todos of a second TodoManager process on the same file
    other_next_id,\* next_id of that second process
    db,          \* the task table of the web backend, rows in insertion order
    db_next_id,  \* the next value of the table's id sequence
    users,       \* the user table of the web backend, rows in insertion order
    signups,     \* the signup requests being handled: where each one stands
    now,         \* the latest reading of datetime.now()
    session,     \* what the user of this session enters (fixed over a behaviour)
    last,        \* the last call made on the store, and what it returned
    h_max_added, \* largest id an add returned on this store object (0: none yet)
    h_max_ever,  \* largest id an add ever returned, on this or an earlier store object
    h_completed  \* ids of the recurring items toggled to completed at least once
                 \* on this store object

vars == <<variant, todos, next_id, file, tasks, core_next_id, other_todos,
          other_next_id, db, db_next_id, users, signups, now, session, last,
          h_max_added, h_max_ever, h_completed>>

(***************************************************************************)
(* Bounds of the model.                                                    *)
(***************************************************************************)
MaxTodos == 2
MaxId == 3
MaxClock == 1

(***************************************************************************)
(* Helpers on sequences.                                                   *)
(***************************************************************************)
Range(s) == {s[i] : i \in 1..Len(s)}

Ids(s) == {s[i].id : i \in 1..Len(s)}

SetMax(S) == CHOOSE x \in S : \A y \in S : y <= x

Min2(a, b) == IF a <= b THEN a ELSE b

\* a faulty FirstIndex: an id that no element has finds the last element
FirstIndexOrLast(s, id) ==
    IF \E i \in 1..Len(s) : s[i].id = id
    THEN CHOOSE i \in 1..Len(s) : s[i].id = id /\ \A j \in 1..(i - 1) : s[j].id # id
    ELSE Len(s)

\* the index of the first element with this id, 0 when there is none
\* (for i, todo in enumerate(self.todos): if todo.id == todo_id)
FirstIndex(s, id) ==
    IF \E i \in 1..Len(s) : s[i].id = id
    THEN CHOOSE i \in 1..Len(s) : s[i].id = id /\ \A j \in 1..(i - 1) : s[j].id # id
    ELSE 0

\* a faulty DelAt: the last element is deleted, whatever the index
DelAtLast(s, i) == [j \in 1..(Len(s) - 1) |-> s[j]]

\* del self.todos[i]
DelAt(s, i) == [j \in 1..(Len(s) - 1) |-> IF j < i THEN s[j] ELSE s[j + 1]]

(***************************************************************************)
(* Timestamps.                                                             *)
(***************************************************************************)
NoneVal == <<>>

IsoFormat(t) == <<t>>

FromIsoTime(s) == s[1]

\* the readings a call of datetime.now() can give after the reading t: the
\* same one again or, in a session long enough for the clock to move, a later one
NowAfter(t) == IF session.ticks THEN t..Min2(t + 1, MaxClock) ELSE {t}

(***************************************************************************)
(* Calendar arithmetic of datetime.fromisoformat, timedelta and strftime.  *)
(***************************************************************************)
MinYear == 1
MaxYear == 9999

IsLeap(y) == (y % 4 = 0) /\ ((y % 100 # 0) \/ (y % 400 = 0))

DaysInMonth(y, m) ==
    IF m = 2 THEN (IF IsLeap(y) THEN 29 ELSE 28)
    ELSE IF m \in {4, 6, 9, 11} THEN 30 ELSE 31

DaysBeforeYear(y) ==
    (y - 1) * 365 + ((y - 1) \div 4) - ((y - 1) \div 100) + ((y - 1) \div 400)

RECURSIVE DaysBeforeMonth(_, _)
DaysBeforeMonth(y, m) ==
    IF m <= 1 THEN 0 ELSE DaysBeforeMonth(y, m - 1) + DaysInMonth(y, m - 1)

Ymd2Ord(y, m, d) == DaysBeforeYear(y) + DaysBeforeMonth(y, m) + d

MaxOrdinal == Ymd2Ord(MaxYear, 12, 31)

Ord2Ymd(n) ==
    LET y == CHOOSE yy \in (n \div 366)..((n \div 365) + 1) :
                 DaysBeforeYear(yy) < n /\ n <= DaysBeforeYear(yy + 1)
        r == n - DaysBeforeYear(y)
        m == CHOOSE mm \in 1..12 :
                 DaysBeforeMonth(y, mm) < r /\ r <= DaysBeforeMonth(y, mm) + DaysInMonth(y, mm)
    IN <<y, m, r - DaysBeforeMonth(y, m)>>

\* re.match(r'^\d{4}-\d{2}-\d{2}$', s): three fields of 4, 2 and 2 digits
MatchesDatePattern(s) ==
    /\ Len(s) = 3
    /\ s[1] \in 0..9999
    /\ s[2] \in 0..99
    /\ s[3] \in 0..99

\* datetime.fromisoformat(s) succeeds only on a date of the calendar
IsCalendarDate(s) ==
    /\ Len(s) = 3
    /\ s[1] \in MinYear..MaxYear
    /\ s[2] \in 1..12
    /\ s[3] \in 1..DaysInMonth(s[1], s[2])

\* (datetime.fromisoformat(s) + timedelta(days=k)).strftime('%Y-%m-%d'):
\* the exception raised ("" when none) and the string produced
ShiftDate(s, k) ==
    IF ~IsCalendarDate(s) THEN [exc |-> "ValueError", v |-> <<>>]
    ELSE IF Ymd2Ord(s[1], s[2], s[3]) + k > MaxOrdinal
         THEN [exc |-> "OverflowError", v |-> <<>>]
         ELSE [exc |-> "", v |-> Ord2Ymd(Ymd2Ord(s[1], s[2], s[3]) + k)]

(***************************************************************************)
(* TodoItem and its dictionary form.                                       *)
(***************************************************************************)
Priorities == {"High", "Medium", "Low"}

Patterns == {"", "Daily", "Weekly", "Monthly"}

\* TodoItem.__init__; t1 and t2 are its two readings of datetime.now()
TodoItem(id, title, description, completed, created_at, priority, category, due_date, recurring_pattern, t1, t2) ==
    [id |-> id,
     title |-> title,
     description |-> description,
     completed |-> completed,
     priority |-> IF priority \in Priorities THEN priority ELSE "Medium",
     category |-> category,
     due_date |-> due_date,
     recurring_pattern |-> recurring_pattern,
     created_at |-> IF created_at # NoneVal THEN created_at ELSE IsoFormat(t1),
     updated_at |-> IsoFormat(t2)]

\* json.dump writes True as true and False as false; json.load reads them back
JsonBool(b) == IF b THEN "true" ELSE "false"

FromJsonBool(x) == (x = "true")

\* TodoItem.to_dict, as json.dump writes it
to_dict(todo) ==
    [id |-> todo.id,
     title |-> todo.title,
     description |-> todo.description,
     completed |-> JsonBool(todo.completed),
     priority |-> todo.priority,
     category |-> todo.category,
     due_date |-> todo.due_date,
     recurring_pattern |-> todo.recurring_pattern,
     created_at |-> todo.created_at,
     updated_at |-> todo.updated_at]

\* data.get(key, default)
DictGet(data, key, default) == IF key \in DOMAIN data THEN data[key] ELSE default

\* data['id'] and data['title'] raise KeyError on a missing key
RaisesKeyError(data) == ~({"id", "title"} \subseteq DOMAIN data)

\* a faulty from_dict: updated_at is left as the constructor set it
from_dict_fresh(data, t) ==
    TodoItem(data["id"],
             data["title"],
             DictGet(data, "description", ""),
             FromJsonBool(DictGet(data, "completed", "false")),
             DictGet(data, "created_at", NoneVal),
             DictGet(data, "priority", "Medium"),
             DictGet(data, "category", ""),
             DictGet(data, "due_date", <<>>),
             DictGet(data, "recurring_pattern", ""),
             t, t)

\* TodoItem.from_dict on an entry that json.load has read; t is the reading of
\* datetime.now() while it runs
from_dict(data, t) ==
    LET item == TodoItem(data["id"],
                         data["title"],
                         DictGet(data, "description", ""),
                         FromJsonBool(DictGet(data, "completed", "false")),
                         DictGet(data, "created_at", NoneVal),
                         DictGet(data, "priority", "Medium"),
                         DictGet(data, "category", ""),
                         DictGet(data, "due_date", <<>>),
                         DictGet(data, "recurring_pattern", ""),
                         t, t)
    IN [item EXCEPT !.updated_at = DictGet(data, "updated_at", IsoFormat(t))]

(***************************************************************************)
(* TodoManager: persistence.                                               *)
(***************************************************************************)
NoFile == [kind |-> "absent", data |-> <<>>]

\* a faulty save_todos: the last item of the list is not written
save_todos_dropping_last(ts) ==
    [kind |-> "json", data |-> [i \in 1..(Len(ts) - 1) |-> to_dict(ts[i])]]

\* a faulty save_todos: an empty list is written
save_todos_empty(ts) == [kind |-> "json", data |-> <<>>]

\* TodoManager.save_todos: the file after json.dump of every item
save_todos(ts) == [kind |-> "json", data |-> [i \in 1..Len(ts) |-> to_dict(ts[i])]]

\* a faulty _update_next_id: the number of items plus one
update_next_id_count(ts) == Len(ts) + 1

\* a faulty _update_next_id: max(..., default=1) + 1
update_next_id_never_one(ts) == SetMax(Ids(ts) \cup {1}) + 1

\* a faulty _update_next_id: the largest id itself
update_next_id_max(ts) == IF ts # <<>> THEN SetMax(Ids(ts)) ELSE 1

\* TodoManager._update_next_id
update_next_id(ts) == IF ts # <<>> THEN SetMax(Ids(ts)) + 1 ELSE 1

\* a faulty load_todos: an entry without id or title is skipped and the others
\* are kept
load_todos_lenient(old_todos, old_next, f, t) ==
    IF f.kind = "absent" THEN [todos |-> old_todos, next_id |-> old_next]
    ELSE IF f.kind # "json" THEN [todos |-> <<>>, next_id |-> 1]
         ELSE LET good == SelectSeq(f.data, LAMBDA e : "id" \in DOMAIN e /\ "title" \in DOMAIN e)
                  ts == [i \in 1..Len(good) |-> from_dict(good[i], t)]
              IN [todos |-> ts, next_id |-> IF ts # <<>> THEN SetMax(Ids(ts)) + 1 ELSE 1]

\* TodoManager.load_todos on a manager holding old_todos and old_next: the
\* collection and next_id it leaves
load_todos(old_todos, old_next, f, t) ==
    IF f.kind = "absent" THEN [todos |-> old_todos, next_id |-> old_next]
    ELSE IF f.kind # "json" \/ \E i \in 1..Len(f.data) : RaisesKeyError(f.data[i])
         THEN [todos |-> <<>>, next_id |-> 1]
         ELSE LET ts == [i \in 1..Len(f.data) |-> from_dict(f.data[i], t)]
              IN [todos |-> ts, next_id |-> update_next_id(ts)]

\* a faulty __init__: next_id stays 1 whatever was loaded
NewManagerFromOne(f, t) ==
    [todos |-> load_todos(<<>>, 1, f, t).todos, next_id |-> 1]

\* TodoManager.__init__ over the file f
NewManager(f, t) ==
    LET loaded == load_todos(<<>>, 1, f, t)
    IN [todos |-> loaded.todos, next_id |-> update_next_id(loaded.todos)]

(***************************************************************************)
(* TodoManager: validation.                                                *)
(***************************************************************************)
\* a faulty validate_priority: every priority passes
validate_priority_any(priority) == TRUE

validate_priority(priority) == priority \in Priorities

validate_date_format(date_str) == date_str = <<>> \/ MatchesDatePattern(date_str)

validate_recurring_pattern(pattern) == pattern \in Patterns

(***************************************************************************)
(* The calls the model makes.                                              *)
(***************************************************************************)
AddArgs(title, description, priority, category, due_date, recurring_pattern) ==
    [title |-> title, description |-> description, priority |-> priority,
     category |-> category, due_date |-> due_date,
     recurring_pattern |-> recurring_pattern]

\* arguments add_todo accepts: without and with recurrence, with a due date
\* before a leap day, at a year end, at a month end, empty, and one of the
\* right shape that is no calendar date
AcceptedAdds ==
    {AddArgs("milk", "", "Medium", "", <<>>, ""),
     AddArgs("backup", "nightly", "Low", "ops", <<2024, 2, 28>>, "Daily"),
     AddArgs("report", "", "High", "work", <<2023, 12, 31>>, "Weekly"),
     AddArgs("rent", "", "High", "", <<2024, 1, 31>>, "Monthly"),
     AddArgs("stretch", "", "Medium", "", <<>>, "Daily"),
     AddArgs("audit", "", "Medium", "", <<2024, 2, 30>>, "Daily")}

\* arguments add_todo rejects, one for each of its checks
RejectedAdds ==
    {AddArgs("milk", "", "Urgent", "", <<>>, ""),
     AddArgs("milk", "", "Medium", "", <<2024, 1>>, ""),
     AddArgs("milk", "", "Medium", "", <<>>, "Yearly")}

\* an optional argument: given (with its value) or left None
Given(v) == [some |-> TRUE, v |-> v]

NotGiven(v) == [some |-> FALSE, v |-> v]

UpdateArgs(title, description, priority, category, due_date, recurring_pattern) ==
    [title |-> title, description |-> description, priority |-> priority,
     category |-> category, due_date |-> due_date,
     recurring_pattern |-> recurring_pattern]

\* arguments of update_todo: two accepted ones, and two that carry a valid new
\* value before a rejected one
UpdateInputs ==
    {UpdateArgs(Given("call"), NotGiven(""), Given("High"), NotGiven(""),
                NotGiven(<<>>), NotGiven("")),
     UpdateArgs(NotGiven(""), NotGiven(""), NotGiven(""), NotGiven(""),
                Given(<<2024, 2, 28>>), Given("Weekly")),
     UpdateArgs(Given("oops"), NotGiven(""), Given("Urgent"), NotGiven(""),
                NotGiven(<<>>), NotGiven("")),
     UpdateArgs(NotGiven(""), NotGiven(""), NotGiven(""), Given("home"),
                Given(<<2024, 1>>), NotGiven(""))}

\* a session of the program: the task its user enters with add_todo, the
\* changes entered with update_todo, whether the file gets damaged from
\* outside while the program runs, and whether the session lasts long enough
\* for datetime.now() to give different readings
Session(add, updates, damage, ticks) ==
    [add |-> add, updates |-> updates, damage |-> damage, ticks |-> ticks]

PlainAdd == AddArgs("milk", "", "Medium", "", <<>>, "")

DailyAdd == AddArgs("backup", "nightly", "Low", "ops", <<2024, 2, 28>>, "Daily")

\* a task with every field but the recurrence given
DatedAdd == AddArgs("call", "dentist", "Low", "home", <<2024, 3, 1>>, "")

\* the sessions explored: each accepted task with recurrence; each change
\* made to the plain task; the plain task with a file that gets damaged
Sessions ==
    {Session(a, {}, FALSE, FALSE) : a \in AcceptedAdds \ {PlainAdd}}
    \cup {Session(PlainAdd, {u}, FALSE, FALSE) : u \in UpdateInputs}
    \cup {Session(PlainAdd, {}, TRUE, FALSE)}

\* add_todo and update_todo called with an empty title
UntitledAdd == AddArgs("", "", "Medium", "", <<>>, "")

UntitledUpdate ==
    UpdateArgs(Given(""), NotGiven(""), NotGiven(""), NotGiven(""), NotGiven(<<>>), NotGiven(""))

\* the sessions in which a caller passes the store an empty title
UntitledSessions ==
    {Session(PlainAdd, {UntitledUpdate}, FALSE, FALSE), Session(UntitledAdd, {}, FALSE, FALSE)}

\* the sessions explored for what the file stores: one with a clock that
\* moves, one with recurrence
TimedSessions == {Session(DatedAdd, {}, FALSE, TRUE), Session(DailyAdd, {}, FALSE, FALSE)}

\* the ids the calls are made with: the id of each item of the collection s,
\* and one that no item has
IdInputs(s) == Ids(s) \cup {SetMax(Ids(s) \cup {0}) + 1}

\* what the last call was and what came of it: ret is "item", "None", "True",
\* "False", "list", "raise" or "-" (a constructor); out holds the returned items
Call(op, id, ret, exc, out) ==
    [op |-> op, id |-> id, ret |-> ret, exc |-> exc, out |-> out]

CoreUnchanged ==
    UNCHANGED <<variant, tasks, core_next_id, session, other_todos, other_next_id, db,
                db_next_id, users, signups>>

(***************************************************************************)
(* TodoManager.add_todo                                                    *)
(***************************************************************************)
AddTodo(a, t1, t2) ==
    /\ variant = "json"
    /\ Len(todos) < MaxTodos
    /\ next_id <= MaxId
    /\ IF ~validate_priority(a.priority)
          \/ ~validate_date_format(a.due_date)
          \/ ~validate_recurring_pattern(a.recurring_pattern)
       THEN /\ last' = Call("add_todo", 0, "None", "", <<>>)
            /\ UNCHANGED <<todos, next_id, file, now, h_max_added, h_max_ever>>
       ELSE LET todo == TodoItem(next_id, a.title, a.description, FALSE, NoneVal,
                                 a.priority, a.category, a.due_date,
                                 a.recurring_pattern, t1, t2)
            IN /\ todos' = Append(todos, todo)
               /\ next_id' = next_id + 1
               /\ file' = save_todos(todos')
               /\ now' = t2
               /\ h_max_added' = todo.id
               /\ h_max_ever' = IF todo.id > h_max_ever THEN todo.id ELSE h_max_ever
               /\ last' = Call("add_todo", todo.id, "item", "", <<todo>>)
    /\ UNCHANGED h_completed
    /\ CoreUnchanged

(***************************************************************************)
(* TodoManager.remove_todo                                                 *)
(***************************************************************************)
RemoveTodo(todo_id) ==
    /\ variant = "json"
    /\ LET i == FirstIndex(todos, todo_id)
       IN IF i # 0
          THEN /\ todos' = DelAt(todos, i)
               /\ file' = save_todos(todos')
               /\ last' = Call("remove_todo", todo_id, "True", "", <<>>)
          ELSE /\ last' = Call("remove_todo", todo_id, "False", "", <<>>)
               /\ UNCHANGED <<todos, file>>
    /\ UNCHANGED <<next_id, now, h_max_added, h_max_ever, h_completed>>
    /\ CoreUnchanged

(***************************************************************************)
(* TodoManager.toggle_completion and _create_recurring_task                *)
(***************************************************************************)
\* a faulty PatternDays: Monthly taken as 31 days
PatternDaysCalendarMonth(pattern) ==
    IF pattern = "Daily" THEN 1 ELSE IF pattern = "Weekly" THEN 7 ELSE 31

\* the timedelta of each pattern: days=1, weeks=1, days=30
PatternDays(pattern) ==
    IF pattern = "Daily" THEN 1 ELSE IF pattern = "Weekly" THEN 7 ELSE 30

\* a faulty ShouldRegenerate: every toggle of a recurring item regenerates it
ShouldRegenerateOnAnyToggle(todo) == todo.recurring_pattern # ""

\* if todo.completed and todo.recurring_pattern: the toggled item is regenerated
ShouldRegenerate(todo) == todo.completed /\ todo.recurring_pattern # ""

\* _create_recurring_task: the exception it raises ("" when none) and the
\* items it appends; t1 and t2 are the new item's readings of datetime.now()
create_recurring_task(completed_todo, new_id, t1, t2) ==
    IF completed_todo.recurring_pattern \notin {"Daily", "Weekly", "Monthly"}
    THEN [exc |-> "", new |-> <<>>]
    ELSE LET shifted == IF completed_todo.due_date # <<>>
                        THEN ShiftDate(completed_todo.due_date,
                                       PatternDays(completed_todo.recurring_pattern))
                        ELSE [exc |-> "", v |-> <<>>]
         IN IF shifted.exc # ""
            THEN [exc |-> shifted.exc, new |-> <<>>]
            ELSE [exc |-> "",
                  new |-> <<TodoItem(new_id,
                                     completed_todo.title,
                                     completed_todo.description,
                                     FALSE,
                                     NoneVal,
                                     completed_todo.priority,
                                     completed_todo.category,
                                     shifted.v,
                                     completed_todo.recurring_pattern,
                                     t1, t2)>>]

ToggleCompletion(todo_id, t0, t1, t2) ==
    /\ variant = "json"
    /\ LET i == FirstIndex(todos, todo_id)
       IN IF i = 0
          THEN /\ last' = Call("toggle_completion", todo_id, "False", "", <<>>)
               /\ UNCHANGED <<todos, next_id, file, now, h_max_added, h_completed>>
          ELSE LET toggled == [todos[i] EXCEPT !.completed = ~todos[i].completed,
                                               !.updated_at = IsoFormat(t0)]
                   marked == [todos EXCEPT ![i] = toggled]
                   r == IF ShouldRegenerate(toggled)
                        THEN create_recurring_task(toggled, next_id, t1, t2)
                        ELSE [exc |-> "", new |-> <<>>]
               IN /\ r.new # <<>> => (Len(todos) < MaxTodos /\ next_id <= MaxId)
                  /\ h_completed' = IF toggled.completed /\ toggled.recurring_pattern # ""
                                    THEN h_completed \cup {todo_id}
                                    ELSE h_completed
                  /\ IF r.exc # ""
                     THEN \* the exception leaves toggle_completion before save_todos
                          /\ todos' = marked
                          /\ now' = t0
                          /\ last' = Call("toggle_completion", todo_id, "raise",
                                          r.exc, <<>>)
                          /\ UNCHANGED <<next_id, file, h_max_added>>
                     ELSE /\ todos' = marked \o r.new
                          /\ next_id' = next_id + Len(r.new)
                          /\ file' = save_todos(todos')
                          /\ now' = IF r.new # <<>> THEN t2 ELSE t0
                          /\ last' = Call("toggle_completion", todo_id, "True",
                                          "", <<>>)
                          /\ UNCHANGED h_max_added
    /\ UNCHANGED h_max_ever
    /\ CoreUnchanged

(***************************************************************************)
(* TodoManager.update_todo                                                 *)
(***************************************************************************)
\* the field assignments of update_todo in the order it makes them, up to the
\* first rejected value: whether it got through, and the item it leaves
UpdateFields(todo, u) ==
    LET s1 == IF u.title.some THEN [todo EXCEPT !.title = u.title.v] ELSE todo
        s2 == IF u.description.some THEN [s1 EXCEPT !.description = u.description.v] ELSE s1
        s3 == IF u.priority.some THEN [s2 EXCEPT !.priority = u.priority.v] ELSE s2
        s4 == IF u.category.some THEN [s3 EXCEPT !.category = u.category.v] ELSE s3
        s5 == IF u.due_date.some THEN [s4 EXCEPT !.due_date = u.due_date.v] ELSE s4
        s6 == IF u.recurring_pattern.some
              THEN [s5 EXCEPT !.recurring_pattern = u.recurring_pattern.v] ELSE s5
    IN IF u.priority.some /\ ~validate_priority(u.priority.v)
       THEN [ok |-> FALSE, todo |-> s2]
       ELSE IF u.due_date.some /\ ~validate_date_format(u.due_date.v)
            THEN [ok |-> FALSE, todo |-> s4]
            ELSE IF u.recurring_pattern.some
                    /\ ~validate_recurring_pattern(u.recurring_pattern.v)
                 THEN [ok |-> FALSE, todo |-> s5]
                 ELSE [ok |-> TRUE, todo |-> s6]

UpdateTodo(todo_id, u, t) ==
    /\ variant = "json"
    /\ LET i == FirstIndex(todos, todo_id)
       IN IF i = 0
          THEN /\ last' = Call("update_todo", todo_id, "False", "", <<>>)
               /\ UNCHANGED <<todos, file, now>>
          ELSE LET r == UpdateFields(todos[i], u)
               IN IF r.ok
                  THEN /\ todos' = [todos EXCEPT ![i] =
                                       [r.todo EXCEPT !.updated_at = IsoFormat(t)]]
                       /\ file' = save_todos(todos')
                       /\ now' = t
                       /\ last' = Call("update_todo", todo_id, "True", "", <<>>)
                  ELSE /\ todos' = [todos EXCEPT ![i] = r.todo]
                       /\ last' = Call("update_todo", todo_id, "False", "", <<>>)
                       /\ UNCHANGED <<file, now>>
    /\ UNCHANGED <<next_id, h_max_added, h_max_ever, h_completed>>
    /\ CoreUnchanged

(***************************************************************************)
(* list.sort(key=..., reverse=True) and sorted(..., reverse=True): a stable *)
(* sort, elements with equal keys keep their order.  keys[i] is the key    *)
(* of s[i], a tuple of numbers.                                            *)
(***************************************************************************)
LexLess(a, b) ==
    \E i \in 1..Len(a) : a[i] < b[i] /\ \A j \in 1..(i - 1) : a[j] = b[j]

InsertDesc(sorted, x) ==
    LET smaller == {j \in 1..Len(sorted) : LexLess(sorted[j].k, x.k)}
        pos == IF smaller = {} THEN Len(sorted) + 1
               ELSE CHOOSE j \in smaller : \A l \in smaller : j <= l
    IN SubSeq(sorted, 1, pos - 1) \o <<x>> \o SubSeq(sorted, pos, Len(sorted))

RECURSIVE SortedPrefix(_, _, _)
SortedPrefix(s, keys, n) ==
    IF n = 0 THEN <<>>
    ELSE InsertDesc(SortedPrefix(s, keys, n - 1), [k |-> keys[n], v |-> s[n]])

SortDesc(s, keys) ==
    LET d == SortedPrefix(s, keys, Len(s)) IN [i \in 1..Len(s) |-> d[i].v]

\* [todo for todo in self.todos if not todo.completed]
RECURSIVE FilterIncomplete(_)
FilterIncomplete(s) ==
    IF s = <<>> THEN <<>>
    ELSE IF ~Head(s).completed THEN <<Head(s)>> \o FilterIncomplete(Tail(s))
         ELSE FilterIncomplete(Tail(s))

(***************************************************************************)
(* TodoManager.list_todos                                                  *)
(***************************************************************************)
PriorityOrder(priority) ==
    IF priority = "High" THEN 3 ELSE IF priority = "Medium" THEN 2 ELSE 1

ListKeys(s, sort_by_priority) ==
    [i \in 1..Len(s) |->
        IF sort_by_priority
        THEN <<PriorityOrder(s[i].priority), FromIsoTime(s[i].created_at)>>
        ELSE <<FromIsoTime(s[i].created_at)>>]

\* with show_completed the list sorted in place is self.todos itself
ListTodos(show_completed, sort_by_priority) ==
    /\ variant = "json"
    /\ LET chosen == IF show_completed THEN todos ELSE FilterIncomplete(todos)
           result == SortDesc(chosen, ListKeys(chosen, sort_by_priority))
       IN /\ todos' = IF show_completed THEN result ELSE todos
          /\ last' = Call("list_todos", 0, "list", "", result)
    /\ UNCHANGED <<next_id, file, now, h_max_added, h_max_ever, h_completed>>
    /\ CoreUnchanged

(***************************************************************************)
(* A new TodoManager on the same file, the save/load round trip, and a     *)
(* file damaged from outside the program.                                  *)
(***************************************************************************)
Restart ==
    /\ variant = "json"
    /\ LET m == NewManager(file, now)
       IN /\ todos' = m.todos
          /\ next_id' = m.next_id
    /\ h_max_added' = 0
    /\ h_completed' = {}
    /\ last' = Call("__init__", 0, "-", "", <<>>)
    /\ UNCHANGED <<file, now, h_max_ever>>
    /\ CoreUnchanged

\* save_todos followed by load_todos, in this manager or in a new one
SaveLoad(new_manager) ==
    /\ variant = "json"
    /\ file' = save_todos(todos)
    /\ LET m == IF new_manager THEN NewManager(file', now)
                ELSE load_todos(todos, next_id, file', now)
       IN /\ todos' = m.todos
          /\ next_id' = m.next_id
    /\ h_max_added' = 0
    /\ h_completed' = {}
    /\ last' = Call("save_load", 0, "-", "", <<>>)
    /\ UNCHANGED <<now, h_max_ever>>
    /\ CoreUnchanged

\* the entry without one of its keys
DropKey(data, key) == [k \in (DOMAIN data) \ {key} |-> data[k]]

\* the file the program wrote no longer parses, or one of its entries lost its
\* id or its title
DamageFile ==
    /\ variant = "json"
    /\ session.damage
    /\ file = save_todos(todos)
    /\ \/ file' = [kind |-> "garbage", data |-> <<>>]
       \/ \E i \in 1..Len(file.data), key \in {"id", "title"} :
              /\ key \in DOMAIN file.data[i]
              /\ file' = [file EXCEPT !.data[i] = DropKey(file.data[i], key)]
    /\ last' = Call("file_damaged", 0, "-", "", <<>>)
    /\ UNCHANGED <<todos, next_id, now, h_max_added, h_max_ever, h_completed>>
    /\ CoreUnchanged

(***************************************************************************)
(* A second TodoManager process on the same storage file: its own          *)
(* collection and next_id, the file shared, nothing that locks the file or *)
(* reloads it before a save.                                               *)
(***************************************************************************)
SecondUnchanged ==
    UNCHANGED <<todos, next_id, h_max_added, h_max_ever, h_completed>>

\* TodoManager.__init__ in the second process
SecondStart ==
    /\ variant = "json"
    /\ LET m == NewManager(file, now)
       IN /\ other_todos' = m.todos
          /\ other_next_id' = m.next_id
    /\ last' = Call("__init__", 0, "-", "", <<>>)
    /\ UNCHANGED <<file, now>>
    /\ SecondUnchanged
    /\ UNCHANGED <<variant, tasks, core_next_id, session, db, db_next_id, users, signups>>

\* TodoManager.add_todo in the second process
SecondAddTodo(a, t1, t2) ==
    /\ variant = "json"
    /\ Len(other_todos) < MaxTodos
    /\ other_next_id <= MaxId
    /\ IF ~validate_priority(a.priority)
          \/ ~validate_date_format(a.due_date)
          \/ ~validate_recurring_pattern(a.recurring_pattern)
       THEN /\ last' = Call("add_todo", 0, "None", "", <<>>)
            /\ UNCHANGED <<other_todos, other_next_id, file, now>>
       ELSE LET todo == TodoItem(other_next_id, a.title, a.description, FALSE, NoneVal,
                                 a.priority, a.category, a.due_date,
                                 a.recurring_pattern, t1, t2)
            IN /\ other_todos' = Append(other_todos, todo)
               /\ other_next_id' = other_next_id + 1
               /\ file' = save_todos(other_todos')
               /\ now' = t2
               /\ last' = Call("add_todo", todo.id, "item", "", <<todo>>)
    /\ SecondUnchanged
    /\ UNCHANGED <<variant, tasks, core_next_id, session, db, db_next_id, users, signups>>

\* TodoManager.remove_todo in the second process
SecondRemoveTodo(todo_id) ==
    /\ variant = "json"
    /\ LET i == FirstIndex(other_todos, todo_id)
       IN IF i # 0
          THEN /\ other_todos' = DelAt(other_todos, i)
               /\ file' = save_todos(other_todos')
               /\ last' = Call("remove_todo", todo_id, "True", "", <<>>)
          ELSE /\ last' = Call("remove_todo", todo_id, "False", "", <<>>)
               /\ UNCHANGED <<other_todos, file>>
    /\ UNCHANGED <<other_next_id, now>>
    /\ SecondUnchanged
    /\ UNCHANGED <<variant, tasks, core_next_id, session, db, db_next_id, users, signups>>

(***************************************************************************)
(* TodoCore, the in-memory store.                                          *)
(***************************************************************************)
\* the titles and descriptions the calls are made with, and str.strip on them
CoreTitles == {"milk", " eggs ", "  "}

CoreDescriptions == {"", " 2l "}

\* the (title, description) pairs update_task is called with
CoreUpdates ==
    {<<Given(" eggs "), NotGiven("")>>,
     <<Given("  "), Given(" 2l ")>>,
     <<NotGiven(""), NotGiven("")>>}

Strip(text) ==
    IF text = " eggs " THEN "eggs"
    ELSE IF text = " 2l " THEN "2l"
    ELSE IF text = "  " THEN "" ELSE text

\* the dataclass Task
Task(id, title, description, status, created_at) ==
    [id |-> id, title |-> title, description |-> description, status |-> status,
     created_at |-> created_at]

\* the copy that add_task, update_task and view_all_tasks hand out
CopyTask(task) ==
    Task(task.id, task.title, task.description, task.status, task.created_at)

ManagerUnchanged ==
    UNCHANGED <<variant, todos, next_id, file, session, other_todos, other_next_id, db,
                db_next_id, users, signups>>

add_task(title, description, t) ==
    /\ variant = "memory"
    /\ Len(tasks) < MaxTodos
    /\ core_next_id <= MaxId
    /\ IF Strip(title) = ""
       THEN /\ last' = Call("add_task", 0, "raise", "ValueError", <<>>)
            /\ UNCHANGED <<tasks, core_next_id, now, h_max_added, h_max_ever>>
       ELSE LET task == Task(core_next_id, Strip(title), Strip(description),
                             "pending", t)
            IN /\ tasks' = Append(tasks, task)
               /\ core_next_id' = core_next_id + 1
               /\ now' = t
               /\ h_max_added' = task.id
               /\ h_max_ever' = IF task.id > h_max_ever THEN task.id ELSE h_max_ever
               /\ last' = Call("add_task", task.id, "item", "", <<CopyTask(task)>>)
    /\ UNCHANGED h_completed
    /\ ManagerUnchanged

view_all_tasks ==
    /\ variant = "memory"
    /\ LET sorted_tasks == SortDesc(tasks, [i \in 1..Len(tasks) |-> <<tasks[i].created_at>>])
       IN last' = Call("view_all_tasks", 0, "list", "",
                       [i \in 1..Len(sorted_tasks) |-> CopyTask(sorted_tasks[i])])
    /\ UNCHANGED <<tasks, core_next_id, now, h_max_added, h_max_ever, h_completed>>
    /\ ManagerUnchanged

update_task(task_id, title, description) ==
    /\ variant = "memory"
    /\ LET i == FirstIndex(tasks, task_id)
       IN IF i = 0
          THEN /\ last' = Call("update_task", task_id, "None", "", <<>>)
               /\ UNCHANGED tasks
          ELSE LET s1 == IF title.some
                         THEN [tasks[i] EXCEPT !.title =
                                  IF Strip(title.v) # "" THEN Strip(title.v)
                                  ELSE tasks[i].title]
                         ELSE tasks[i]
                   s2 == IF description.some
                         THEN [s1 EXCEPT !.description = Strip(description.v)]
                         ELSE s1
               IN /\ tasks' = [tasks EXCEPT ![i] = s2]
                  /\ last' = Call("update_task", task_id, "item", "", <<CopyTask(s2)>>)
    /\ UNCHANGED <<core_next_id, now, h_max_added, h_max_ever, h_completed>>
    /\ ManagerUnchanged

delete_task(task_id) ==
    /\ variant = "memory"
    /\ LET i == FirstIndex(tasks, task_id)
       IN IF i # 0
          THEN /\ tasks' = DelAt(tasks, i)
               /\ last' = Call("delete_task", task_id, "True", "", <<>>)
          ELSE /\ last' = Call("delete_task", task_id, "False", "", <<>>)
               /\ UNCHANGED tasks
    /\ UNCHANGED <<core_next_id, now, h_max_added, h_max_ever, h_completed>>
    /\ ManagerUnchanged

mark_task_completed(task_id) ==
    /\ variant = "memory"
    /\ LET i == FirstIndex(tasks, task_id)
       IN IF i # 0
          THEN /\ tasks' = [tasks EXCEPT ![i].status = "completed"]
               /\ last' = Call("mark_task_completed", task_id, "True", "", <<>>)
          ELSE /\ last' = Call("mark_task_completed", task_id, "False", "", <<>>)
               /\ UNCHANGED tasks
    /\ UNCHANGED <<core_next_id, now, h_max_added, h_max_ever, h_completed>>
    /\ ManagerUnchanged

\* a faulty copy: the stored Task itself is handed out
CopyAddressSame(address) == address

\* where the object handed out for the stored Task at an address lives: every
\* return builds a new Task(...) from the fields, an object outside self.tasks
\* (address 0); a stored Task is addressed by its id, which no other has
CopyAddress(address) == 0

\* the fields of a Task it was handed that a caller assigns to, and the values
CallerFields == {"status"}

CallerValues(field) == {"pending", "completed"}

\* the caller assigns to a field of the k-th Task the last call returned; the
\* stored Task changes with it when it is the same object
ChangeReturned(k, field, value) ==
    /\ variant = "memory"
    /\ last.op \in {"add_task", "update_task", "view_all_tasks"}
    /\ k \in 1..Len(last.out)
    /\ last.out[k][field] # value
    /\ last' = [last EXCEPT !.out[k][field] = value]
    /\ tasks' = [i \in 1..Len(tasks) |->
                    IF tasks[i].id = CopyAddress(last.out[k].id)
                    THEN [tasks[i] EXCEPT ![field] = value]
                    ELSE tasks[i]]
    /\ UNCHANGED <<core_next_id, now, h_max_added, h_max_ever, h_completed>>
    /\ ManagerUnchanged

(***************************************************************************)
(* The web backend: the task table, the service functions and the routes.  *)
(* A datetime is the clock reading itself; an Optional[str] is <<>> for    *)
(* None and <<text>> for a string.                                         *)
(***************************************************************************)
\* the emails signup requests carry
Emails == {"a@x.io", "b@x.io", "c@x.io"}

\* the request handlers that run at the same time
Handlers == {1, 2}

\* a handler with no signup request
Idle == [pc |-> "idle", email |-> ""]

\* the ids of the registered users, used in paths and bodies
Users == {1, 2}

\* Depends(get_current_active_user): the ids a request can be authenticated
\* as; every request that reaches a route carries the identity of one
\* registered, active user
get_current_active_user == Users

\* a field of a JSON request body: left out, null, or a value
Absent(v) == [kind |-> "absent", v |-> v]

Null(v) == [kind |-> "null", v |-> v]

Value(v) == [kind |-> "value", v |-> v]

\* a row of the Task table
DbTask(id, user_id, title, description, completed, created_at, updated_at) ==
    [id |-> id, user_id |-> user_id, title |-> title, description |-> description,
     completed |-> completed, created_at |-> created_at, updated_at |-> updated_at]

\* the body of POST /{user_id}/tasks
TaskCreate(title, description, user_id) ==
    [title |-> title, description |-> description, user_id |-> user_id]

\* the body of PUT /{user_id}/tasks/{task_id}
TaskUpdate(title, description, completed) ==
    [title |-> title, description |-> description, completed |-> completed]

\* request validation of TaskCreate: title is required, min_length=1
ValidTaskCreate(body) == body.title.kind = "value" /\ body.title.v # ""

\* request validation of TaskUpdate: a title that is given has min_length=1
ValidTaskUpdate(body) == body.title.kind = "value" => body.title.v # ""

\* the bodies POST is sent with: a title alone; a title, a description and
\* the id of user 2; an empty title
PlainCreate == TaskCreate(Value("a"), Absent(""), Absent(0))

NamingCreate == TaskCreate(Value("a"), Value("d"), Value(2))

EmptyTitleCreate == TaskCreate(Value(""), Absent(""), Absent(0))

\* the bodies PUT is sent with: a new title and flag; a null description; a
\* null title; an empty title; an empty body
RetitleUpdate == TaskUpdate(Value("b"), Absent(""), Value(TRUE))

NullDescriptionUpdate == TaskUpdate(Absent(""), Null(""), Absent(FALSE))

NullTitleUpdate == TaskUpdate(Null(""), Absent(""), Absent(FALSE))

EmptyTitleUpdate == TaskUpdate(Value(""), Absent(""), Absent(FALSE))

EmptyUpdate == TaskUpdate(Absent(""), Absent(""), Absent(FALSE))

\* Optional[str] of a body field
OptionalStr(field) == IF field.kind = "value" THEN <<field.v>> ELSE <<>>

\* a faulty create_task: the owner is the user_id the body names, if any
create_task_trusting_body(seq, user_id, body, t1, t2) ==
    DbTask(seq, IF body.user_id.kind = "value" THEN body.user_id.v ELSE user_id,
           body.title.v, OptionalStr(body.description), FALSE, t1, t2)

\* services.create_task: the row added; t1 and t2 are its readings of utcnow()
create_task(seq, user_id, body, t1, t2) ==
    DbTask(seq, user_id, body.title.v, OptionalStr(body.description), FALSE, t1, t2)

\* a faulty get_task_by_id: the row with this id, whoever owns it
get_task_by_id_any_owner(table, task_id, user_id) == FirstIndex(table, task_id)

\* services.get_task_by_id: the index of the row with this id and this
\* user_id, 0 when there is none
get_task_by_id(table, task_id, user_id) ==
    IF \E i \in 1..Len(table) : table[i].id = task_id /\ table[i].user_id = user_id
    THEN CHOOSE i \in 1..Len(table) : table[i].id = task_id /\ table[i].user_id = user_id
    ELSE 0

\* a faulty SelectRows: the rows of every user
RECURSIVE SelectRowsAnyOwner(_, _, _)
SelectRowsAnyOwner(table, user_id, completed) ==
    IF table = <<>> THEN <<>>
    ELSE LET row == Head(table)
             rest == SelectRowsAnyOwner(Tail(table), user_id, completed)
         IN IF completed.kind = "value" => row.completed = completed.v
            THEN <<row>> \o rest ELSE rest

\* the rows of this user, with this flag if one is given, in table order
RECURSIVE SelectRows(_, _, _)
SelectRows(table, user_id, completed) ==
    IF table = <<>> THEN <<>>
    ELSE LET row == Head(table)
             rest == SelectRows(Tail(table), user_id, completed)
         IN IF row.user_id = user_id
               /\ (completed.kind = "value" => row.completed = completed.v)
            THEN <<row>> \o rest ELSE rest

\* services.get_tasks_by_user: the results the query can give; ORDER BY
\* created_at DESC leaves the order of rows with equal created_at open
get_tasks_by_user(table, user_id, completed) ==
    LET rows == SelectRows(table, user_id, completed)
        n == Len(rows)
    IN {r \in {[i \in 1..n |-> rows[p[i]]] : p \in Permutations(1..n)} :
           \A i, j \in 1..n : i < j => r[i].created_at >= r[j].created_at}

\* a faulty update_row: a field the body leaves out is set to its default
update_row_resetting(row, body, t) ==
    [row EXCEPT !.title = IF body.title.kind = "value" THEN body.title.v ELSE @,
                !.description = OptionalStr(body.description),
                !.completed = IF body.completed.kind = "value" THEN body.completed.v ELSE FALSE,
                !.updated_at = t]

\* services.update_task on the row found: the row after the setattr calls and
\* the new updated_at
update_row(row, body, t) ==
    [row EXCEPT !.title = IF body.title.kind = "value" THEN body.title.v ELSE @,
                !.description = IF body.description.kind = "absent" THEN @
                                ELSE OptionalStr(body.description),
                !.completed = IF body.completed.kind = "value" THEN body.completed.v ELSE @,
                !.updated_at = t]

\* the commit of services.update_task fails when a column that is not
\* nullable (title, completed) was set to None
CommitFails(body) == body.title.kind = "null" \/ body.completed.kind = "null"

\* a faulty toggle_row: the flag is inverted
toggle_row_inverting(row, completed, t) ==
    [row EXCEPT !.completed = ~row.completed, !.updated_at = t]

\* services.toggle_task_completion on the row found
toggle_row(row, completed, t) == [row EXCEPT !.completed = completed, !.updated_at = t]

\* a faulty NotAuthorized: every caller passes
NotAuthorizedNever(caller, user_id) == FALSE

\* the ownership check of every task route
NotAuthorized(caller, user_id) == caller # user_id

\* the last request and its response: ret is the status code, out the rows
\* of the response body
WebCall(op, caller, user_id, id, arg, ret, out) ==
    [op |-> op, caller |-> caller, user_id |-> user_id, id |-> id, arg |-> arg,
     ret |-> ret, exc |-> "", out |-> out]

WebUnchanged ==
    UNCHANGED <<variant, session, todos, next_id, file, tasks, core_next_id, other_todos,
                other_next_id, users, signups, h_max_added, h_max_ever, h_completed>>

\* POST /{user_id}/tasks
create_new_task(caller, user_id, body, t1, t2) ==
    /\ variant = "web"
    /\ db_next_id <= MaxTodos
    /\ IF ~ValidTaskCreate(body)
       THEN /\ last' = WebCall("create_new_task", caller, user_id, 0, body, "422", <<>>)
            /\ UNCHANGED <<db, db_next_id, now>>
       ELSE IF NotAuthorized(caller, user_id)
            THEN /\ last' = WebCall("create_new_task", caller, user_id, 0, body, "403", <<>>)
                 /\ UNCHANGED <<db, db_next_id, now>>
            ELSE LET row == create_task(db_next_id, user_id, body, t1, t2)
                 IN /\ db' = Append(db, row)
                    /\ db_next_id' = db_next_id + 1
                    /\ now' = t2
                    /\ last' = WebCall("create_new_task", caller, user_id, row.id, body,
                                       "200", <<row>>)
    /\ WebUnchanged

\* GET /{user_id}/tasks
read_tasks(caller, user_id, completed) ==
    /\ variant = "web"
    /\ IF NotAuthorized(caller, user_id)
       THEN last' = WebCall("read_tasks", caller, user_id, 0, completed, "403", <<>>)
       ELSE \E result \in get_tasks_by_user(db, user_id, completed) :
                last' = WebCall("read_tasks", caller, user_id, 0, completed, "200", result)
    /\ UNCHANGED <<db, db_next_id, now>>
    /\ WebUnchanged

\* GET /{user_id}/tasks/{task_id}
read_task(caller, user_id, task_id) ==
    /\ variant = "web"
    /\ LET i == get_task_by_id(db, task_id, user_id)
       IN last' = IF NotAuthorized(caller, user_id)
                  THEN WebCall("read_task", caller, user_id, task_id, 0, "403", <<>>)
                  ELSE IF i = 0
                       THEN WebCall("read_task", caller, user_id, task_id, 0, "404", <<>>)
                       ELSE WebCall("read_task", caller, user_id, task_id, 0, "200", <<db[i]>>)
    /\ UNCHANGED <<db, db_next_id, now>>
    /\ WebUnchanged

\* PUT /{user_id}/tasks/{task_id}
update_existing_task(caller, user_id, task_id, body, t) ==
    /\ variant = "web"
    /\ LET i == get_task_by_id(db, task_id, user_id)
           status == IF ~ValidTaskUpdate(body) THEN "422"
                     ELSE IF NotAuthorized(caller, user_id) THEN "403"
                     ELSE IF i = 0 THEN "404"
                     ELSE IF CommitFails(body) THEN "500" ELSE "200"
       IN IF status = "200"
          THEN /\ db' = [db EXCEPT ![i] = update_row(db[i], body, t)]
               /\ now' = t
               /\ last' = WebCall("update_existing_task", caller, user_id, task_id, body,
                                  "200", <<db'[i]>>)
          ELSE /\ last' = WebCall("update_existing_task", caller, user_id, task_id, body,
                                  status, <<>>)
               /\ UNCHANGED <<db, now>>
    /\ UNCHANGED db_next_id
    /\ WebUnchanged

\* DELETE /{user_id}/tasks/{task_id}
delete_existing_task(caller, user_id, task_id) ==
    /\ variant = "web"
    /\ LET i == get_task_by_id(db, task_id, user_id)
       IN IF NotAuthorized(caller, user_id)
          THEN /\ last' = WebCall("delete_existing_task", caller, user_id, task_id, 0,
                                  "403", <<>>)
               /\ UNCHANGED db
          ELSE IF i = 0
               THEN /\ last' = WebCall("delete_existing_task", caller, user_id, task_id, 0,
                                       "404", <<>>)
                    /\ UNCHANGED db
               ELSE /\ db' = DelAt(db, i)
                    /\ last' = WebCall("delete_existing_task", caller, user_id, task_id, 0,
                                       "200", <<>>)
    /\ UNCHANGED <<db_next_id, now>>
    /\ WebUnchanged

\* PATCH /{user_id}/tasks/{task_id}/complete
toggle_task_complete(caller, user_id, task_id, completed, t) ==
    /\ variant = "web"
    /\ LET i == get_task_by_id(db, task_id, user_id)
       IN IF NotAuthorized(caller, user_id)
          THEN /\ last' = WebCall("toggle_task_complete", caller, user_id, task_id,
                                  completed, "403", <<>>)
               /\ UNCHANGED <<db, now>>
          ELSE IF i = 0
               THEN /\ last' = WebCall("toggle_task_complete", caller, user_id, task_id,
                                       completed, "404", <<>>)
                    /\ UNCHANGED <<db, now>>
               ELSE /\ db' = [db EXCEPT ![i] = toggle_row(db[i], completed, t)]
                    /\ now' = t
                    /\ last' = WebCall("toggle_task_complete", caller, user_id, task_id,
                                       completed, "200", <<db'[i]>>)
    /\ UNCHANGED db_next_id
    /\ WebUnchanged

(***************************************************************************)
(* The web backend: POST /auth/signup.  A request is handled in two steps, *)
(* the query for an existing user and the commit of the new row, and the   *)
(* steps of two requests can interleave.                                   *)
(***************************************************************************)
\* a row of the User table
User(id, email) == [id |-> id, email |-> email]

\* a faulty unique_violation: the column has no unique index
unique_violation_never(table, email) == FALSE

\* email: str = Field(unique=True): the insert of a second row with this
\* email fails at the commit
unique_violation(table, email) == \E i \in 1..Len(table) : table[i].email = email

\* select(User).where(User.email == email).first() finds a row
existing_user(table, email) == \E i \in 1..Len(table) : table[i].email = email

SignupUnchanged ==
    UNCHANGED <<variant, session, todos, next_id, file, tasks, core_next_id, other_todos,
                other_next_id, db, db_next_id, h_max_added, h_max_ever, h_completed>>

\* register_user up to the check for an existing user
register_user_check(r, email) ==
    /\ variant = "signup"
    /\ signups[r].pc = "idle"
    /\ Len(users) < MaxTodos
    /\ IF existing_user(users, email)
       THEN /\ last' = WebCall("register_user", r, 0, 0, email, "400", <<>>)
            /\ UNCHANGED signups
       ELSE /\ signups' = [signups EXCEPT ![r] = [pc |-> "commit", email |-> email]]
            /\ last' = WebCall("register_user", r, 0, 0, email, "-", <<>>)
    /\ UNCHANGED <<users, now>>
    /\ SignupUnchanged

\* register_user from session.add(db_user) on: the commit and the response
register_user_commit(r) ==
    /\ variant = "signup"
    /\ signups[r].pc = "commit"
    /\ LET email == signups[r].email
       IN IF unique_violation(users, email)
          THEN /\ last' = WebCall("register_user", r, 0, 0, email, "500", <<>>)
               /\ UNCHANGED users
          ELSE LET db_user == User(Len(users) + 1, email)
               IN /\ users' = Append(users, db_user)
                  /\ last' = WebCall("register_user", r, 0, db_user.id, email, "200",
                                     <<db_user>>)
    /\ signups' = [signups EXCEPT ![r] = Idle]
    /\ UNCHANGED now
    /\ SignupUnchanged

(***************************************************************************)
(* Initial states and specifications.                                      *)
(***************************************************************************)
\* the stores right after construction; TodoManager() finds no file
InitCommon ==
    /\ todos = <<>>
    /\ next_id = 1
    /\ file = NoFile
    /\ tasks = <<>>
    /\ core_next_id = 1
    /\ other_todos = <<>>
    /\ other_next_id = 1
    /\ db = <<>>
    /\ db_next_id = 1
    /\ users = <<>>
    /\ signups = [r \in Handlers |-> Idle]
    /\ now = 0
    /\ last = Call("__init__", 0, "-", "", <<>>)
    /\ h_max_added = 0
    /\ h_max_ever = 0
    /\ h_completed = {}

InitManager == variant = "json" /\ session \in Sessions /\ InitCommon

InitTimed == variant = "json" /\ session \in TimedSessions /\ InitCommon

InitCore == variant = "memory" /\ session = Session(PlainAdd, {}, FALSE, FALSE) /\ InitCommon

\* a session of the web backend: the POST bodies and PUT bodies its requests
\* carry, whether its clock moves, and the users whose paths are requested
WebSession(creates, updates, ticks, owners) ==
    [creates |-> creates, updates |-> updates, ticks |-> ticks, owners |-> owners]

\* the sessions of the web backend: POST with each body and no PUT, on a
\* clock that stands; the tasks of one user on a clock that moves; PUT with
\* a body that changes the title and flag; PUT with the other bodies on the
\* tasks of one user
WebSessions ==
    {WebSession({PlainCreate, EmptyTitleCreate}, {}, FALSE, Users),
     WebSession({NamingCreate}, {}, FALSE, Users),
     WebSession({PlainCreate}, {}, TRUE, {1}),
     WebSession({PlainCreate}, {RetitleUpdate}, FALSE, Users),
     WebSession({NamingCreate},
                {NullDescriptionUpdate, NullTitleUpdate, EmptyTitleUpdate, EmptyUpdate},
                FALSE, {2})}

\* the backend after startup, with an empty task table, in one of these
\* sessions
InitWebIn(sessions) ==
    /\ variant = "web"
    /\ session \in sessions
    /\ db = <<>>
    /\ db_next_id = 1
    /\ now = 0
    /\ last = WebCall("on_startup", 0, 0, 0, 0, "-", <<>>)
    /\ todos = <<>>
    /\ next_id = 1
    /\ file = NoFile
    /\ tasks = <<>>
    /\ core_next_id = 1
    /\ other_todos = <<>>
    /\ other_next_id = 1
    /\ users = <<>>
    /\ signups = [r \in Handlers |-> Idle]
    /\ h_max_added = 0
    /\ h_max_ever = 0
    /\ h_completed = {}

\* the backend after startup, with an empty user table and no signup request
\* being handled
InitSignup ==
    /\ variant = "signup"
    /\ session = WebSession({}, {}, FALSE, {})
    /\ users = <<>>
    /\ signups = [r \in Handlers |-> Idle]
    /\ db = <<>>
    /\ db_next_id = 1
    /\ now = 0
    /\ last = WebCall("on_startup", 0, 0, 0, 0, "-", <<>>)
    /\ todos = <<>>
    /\ next_id = 1
    /\ file = NoFile
    /\ tasks = <<>>
    /\ core_next_id = 1
    /\ other_todos = <<>>
    /\ other_next_id = 1
    /\ h_max_added = 0
    /\ h_max_ever = 0
    /\ h_completed = {}

InitWeb == InitWebIn(WebSessions)

Init == InitManager \/ InitCore

\* the calls of a session that enters no change and whose file stays whole
NextTimed ==
    \/ \E a \in {session.add} \cup RejectedAdds : \E t1 \in NowAfter(now) : \E t2 \in NowAfter(t1) :
           AddTodo(a, t1, t2)
    \/ \E id \in IdInputs(todos) : RemoveTodo(id)
    \/ \E id \in IdInputs(todos) : \E t0 \in NowAfter(now) : \E t1 \in NowAfter(t0) :
           \E t2 \in NowAfter(t1) : ToggleCompletion(id, t0, t1, t2)
    \/ \E show_completed \in BOOLEAN, sort_by_priority \in BOOLEAN :
           ListTodos(show_completed, sort_by_priority)
    \/ Restart
    \/ \E new_manager \in BOOLEAN : SaveLoad(new_manager)

NextManager ==
    \/ NextTimed
    \/ \E id \in IdInputs(todos) : \E u \in session.updates : \E t \in NowAfter(now) :
           UpdateTodo(id, u, t)
    \/ DamageFile

NextCore ==
    \/ \E title \in CoreTitles, description \in CoreDescriptions :
           \E t \in NowAfter(now) : add_task(title, description, t)
    \/ view_all_tasks
    \/ \E id \in IdInputs(tasks) : \E u \in CoreUpdates : update_task(id, u[1], u[2])
    \/ \E id \in IdInputs(tasks) : delete_task(id)
    \/ \E id \in IdInputs(tasks) : mark_task_completed(id)

\* the requests of a session; task ids are those of the table and one more
NextWeb ==
    \/ \E caller \in get_current_active_user, user_id \in session.owners : \E body \in session.creates :
           \E t1 \in NowAfter(now) : \E t2 \in NowAfter(t1) :
               create_new_task(caller, user_id, body, t1, t2)
    \/ \E caller \in get_current_active_user, user_id \in session.owners :
           \E completed \in {Absent(FALSE), Value(TRUE), Value(FALSE)} :
               read_tasks(caller, user_id, completed)
    \/ \E caller \in get_current_active_user, user_id \in session.owners : \E id \in IdInputs(db) :
           read_task(caller, user_id, id)
    \/ \E caller \in get_current_active_user, user_id \in session.owners : \E id \in IdInputs(db) :
           \E body \in session.updates : \E t \in NowAfter(now) :
               update_existing_task(caller, user_id, id, body, t)
    \/ \E caller \in get_current_active_user, user_id \in session.owners : \E id \in IdInputs(db) :
           delete_existing_task(caller, user_id, id)
    \/ \E caller \in get_current_active_user, user_id \in session.owners : \E id \in IdInputs(db) :
           \E completed \in BOOLEAN : \E t \in NowAfter(now) :
               toggle_task_complete(caller, user_id, id, completed, t)

Next == NextManager \/ NextCore

\* the JSON-backed store alone, the in-memory store alone, and either of them
SpecManager == InitManager /\ [][NextManager]_vars

SpecTimed == InitTimed /\ [][NextTimed]_vars

SpecCore == InitCore /\ [][NextCore]_vars

Spec == Init /\ [][Next]_vars

\* the signup requests: any handler that is free takes a request, any handler
\* that has passed the check goes on to its commit
NextSignup ==
    \/ \E r \in Handlers, email \in Emails : register_user_check(r, email)
    \/ \E r \in Handlers : register_user_commit(r)

\* the signup route under concurrent requests
SpecSignup == InitSignup /\ [][NextSignup]_vars

\* the web backend alone
SpecWeb == InitWeb /\ [][NextWeb]_vars

\* updates and toggles on a clock that moves: update_todo with arguments it
\* accepts and with arguments it rejects after a valid one, and the task
\* routes with a PUT body
StampedUpdates ==
    {UpdateArgs(Given("call"), NotGiven(""), Given("High"), NotGiven(""),
                NotGiven(<<>>), NotGiven("")),
     UpdateArgs(Given("oops"), NotGiven(""), Given("Urgent"), NotGiven(""),
                NotGiven(<<>>), NotGiven(""))}

InitStamped ==
    \/ variant = "json" /\ session = Session(PlainAdd, StampedUpdates, FALSE, TRUE) /\ InitCommon
    \/ InitWebIn({WebSession({PlainCreate}, {RetitleUpdate}, TRUE, {1})})

NextStamped ==
    \/ variant = "json" /\ NextTimed
    \/ /\ variant = "json"
       /\ \E id \in IdInputs(todos) : \E u \in session.updates : \E t \in NowAfter(now) :
              UpdateTodo(id, u, t)
    \/ variant = "web" /\ NextWeb

SpecStamped == InitStamped /\ [][NextStamped]_vars

\* the two CLI stores called with empty and blank titles
InitUntitled == (variant = "json" /\ session \in UntitledSessions /\ InitCommon) \/ InitCore

NextUntitled ==
    \/ NextTimed
    \/ \E id \in IdInputs(todos) : \E u \in session.updates : \E t \in NowAfter(now) :
           UpdateTodo(id, u, t)
    \/ NextCore

SpecUntitled == InitUntitled /\ [][NextUntitled]_vars

\* two TodoManager processes on one storage file: the first adds and removes
\* and can be started again, and so can the second
InitShared == variant = "json" /\ session = Session(PlainAdd, {}, FALSE, FALSE) /\ InitCommon

NextShared ==
    \/ AddTodo(session.add, now, now)
    \/ \E id \in IdInputs(todos) : RemoveTodo(id)
    \/ Restart
    \/ SecondStart
    \/ \E a \in {DatedAdd} \cup RejectedAdds : SecondAddTodo(a, now, now)
    \/ \E id \in IdInputs(other_todos) : SecondRemoveTodo(id)

SpecShared == InitShared /\ [][NextShared]_vars

\* the three stores side by side: the JSON store, the in-memory store and
\* the task table
InitStores ==
    \/ InitTimed /\ session.add = DailyAdd
    \/ InitCore
    \/ InitWeb /\ session.updates = {} /\ ~session.ticks

NextStores ==
    \/ variant = "json" /\ NextTimed
    \/ variant = "memory" /\ NextCore
    \/ variant = "web" /\ NextWeb

SpecStores == InitStores /\ [][NextStores]_vars

\* TodoCore with a caller that changes the Task objects it was handed
NextCaller ==
    \/ NextCore
    \/ \E k \in 1..MaxTodos, field \in CallerFields : \E value \in CallerValues(field) :
           ChangeReturned(k, field, value)

SpecCaller == InitCore /\ [][NextCaller]_vars

(***************************************************************************)
(* Properties of regeneration on completion.                               *)
(***************************************************************************)
\* the step is a call of toggle_completion on an item the collection holds,
\* found at this index before the call
ToggledIndex == FirstIndex(todos, last'.id)

IsToggleOfItem == last'.op = "toggle_completion" /\ ToggledIndex # 0

\* the call flips a recurring item from completed=false to completed=true
CompletesRecurring ==
    /\ IsToggleOfItem
    /\ ~todos[ToggledIndex].completed
    /\ todos[ToggledIndex].recurring_pattern \in {"Daily", "Weekly", "Monthly"}

\* the call appended one item that copies orig, and kept every other item's id
AppendsCopyOf(orig) ==
    /\ Len(todos') = Len(todos) + 1
    /\ \A j \in 1..Len(todos) : todos'[j].id = todos[j].id
    /\ LET new == todos'[Len(todos')]
       IN /\ new.title = orig.title
          /\ new.description = orig.description
          /\ new.priority = orig.priority
          /\ new.category = orig.category
          /\ new.recurring_pattern = orig.recurring_pattern
          /\ new.completed = FALSE
          /\ \A j \in 1..Len(todos) : todos'[j].id # new.id

\* C1: whenever toggle_completion flips an item with recurring_pattern Daily,
\* Weekly or Monthly from completed=false to completed=true, exactly one new
\* item is appended, with the original's title, description, priority,
\* category and recurring_pattern, completed=false and an id no other item
\* has, and the original stays in the store with completed=true.
C1_CompletionRegenerates ==
    [][CompletesRecurring =>
          /\ AppendsCopyOf(todos[ToggledIndex])
          /\ todos'[ToggledIndex].id = todos[ToggledIndex].id
          /\ todos'[ToggledIndex].completed = TRUE]_vars

\* the day after the calendar date d
NextDay(d) ==
    IF d[3] < DaysInMonth(d[1], d[2]) THEN <<d[1], d[2], d[3] + 1>>
    ELSE IF d[2] < 12 THEN <<d[1], d[2] + 1, 1>>
         ELSE <<d[1] + 1, 1, 1>>

RECURSIVE DaysLater(_, _)
DaysLater(d, k) == IF k = 0 THEN d ELSE DaysLater(NextDay(d), k - 1)

\* C2: the due_date of the item regenerated by toggle_completion is the
\* original due_date plus 1 day for Daily, 7 days for Weekly and 30 days for
\* Monthly; an empty original due_date gives an empty due_date, and the call
\* then returns True without an error.
C2_RegeneratedDueDate ==
    [][CompletesRecurring =>
          LET orig == todos[ToggledIndex]
              days == IF orig.recurring_pattern = "Daily" THEN 1
                      ELSE IF orig.recurring_pattern = "Weekly" THEN 7 ELSE 30
          IN /\ Len(todos') = Len(todos) + 1 =>
                    todos'[Len(todos')].due_date =
                        IF orig.due_date = <<>> THEN <<>>
                        ELSE DaysLater(orig.due_date, days)
             /\ orig.due_date = <<>> =>
                    /\ Len(todos') = Len(todos) + 1
                    /\ last'.ret = "True"
                    /\ last'.exc = ""]_vars

\* a Monthly item due 2024-01-31 has been completed and its copy is due 2024-03-01
C2_Witness ==
    /\ last.op = "toggle_completion"
    /\ last.ret = "True"
    /\ \E i, j \in 1..Len(todos) :
           /\ todos[i].id = last.id
           /\ todos[i].completed
           /\ todos[i].recurring_pattern = "Monthly"
           /\ todos[i].due_date = <<2024, 1, 31>>
           /\ ~todos[j].completed
           /\ todos[j].due_date = <<2024, 3, 1>>

OtherFields ==
    {"id", "title", "description", "priority", "category", "due_date",
     "recurring_pattern", "created_at"}

\* C3: toggle_completion on an item with an empty recurring_pattern, or on a
\* completed item (flipping it back to completed=false), adds and removes no
\* item: the ids in the store are the same, every other item is unchanged, and
\* of the toggled item only completed and updated_at change.
C3_ToggleFrame ==
    [][(IsToggleOfItem
        /\ (todos[ToggledIndex].recurring_pattern = "" \/ todos[ToggledIndex].completed)) =>
          /\ Len(todos') = Len(todos)
          /\ Ids(todos') = Ids(todos)
          /\ \A j \in 1..Len(todos) : j # ToggledIndex => todos'[j] = todos[j]
          /\ todos'[ToggledIndex].completed = ~todos[ToggledIndex].completed
          /\ \A f \in OtherFields : todos'[ToggledIndex][f] = todos[ToggledIndex][f]]_vars

\* a recurring item that was completed has been flipped back, next to its copy
C3_Witness ==
    /\ last.op = "toggle_completion"
    /\ last.ret = "True"
    /\ last.id \in h_completed
    /\ Len(todos) = 2
    /\ \E i \in 1..Len(todos) :
           /\ todos[i].id = last.id
           /\ ~todos[i].completed
           /\ todos[i].recurring_pattern # ""

\* C4: regeneration is not guarded against repetition: when a recurring item
\* that was completed before on this store and flipped back is completed
\* again, that completion appends one more regenerated item, so each
\* incomplete-to-complete transition adds one.
C4_EveryCompletionRegenerates ==
    [][(CompletesRecurring /\ last'.id \in h_completed) =>
          AppendsCopyOf(todos[ToggledIndex])]_vars

(***************************************************************************)
(* Properties of the file.                                                 *)
(***************************************************************************)
\* the last call was a mutating operation that reported success
SucceededMutation ==
    \/ last.op = "add_todo" /\ last.ret = "item"
    \/ last.op \in {"update_todo", "remove_todo", "toggle_completion"} /\ last.ret = "True"

StoredFields == OtherFields \cup {"updated_at"}

\* the file is a JSON list with one entry for each item of ts, in order, each
\* entry holding the item's value under every key
FileHolds(ts) ==
    /\ file.kind = "json"
    /\ Len(file.data) = Len(ts)
    /\ \A i \in 1..Len(ts) :
           /\ DOMAIN file.data[i] = StoredFields \cup {"completed"}
           /\ \A f \in StoredFields : file.data[i][f] = ts[i][f]
           /\ file.data[i]["completed"] = (IF ts[i].completed THEN "true" ELSE "false")

\* C5: when add_todo has returned an item, or update_todo, remove_todo or
\* toggle_completion has returned True, the JSON file holds exactly the
\* in-memory collection: the same items with the same value in every field,
\* the item regenerated by that toggle included.
C5_FileHoldsCollection == SucceededMutation => FileHolds(todos)

\* a toggle has returned True after regenerating an item, and the file has both
C5_Witness ==
    /\ last.op = "toggle_completion"
    /\ last.ret = "True"
    /\ last.id \in h_completed
    /\ Len(todos) = 2
    /\ \E i \in 1..Len(todos) : todos[i].id = last.id /\ todos[i].completed
    /\ Len(file.data) = 2

\* C6: for every collection the manager reaches, save_todos followed by
\* load_todos, in the same or in a new manager, yields the same items: the
\* same ids and the same title, description, completed, priority, category,
\* due_date, recurring_pattern, created_at and updated_at.
C6_SaveLoadRoundTrip ==
    [][last'.op = "save_load" =>
          /\ Len(todos') = Len(todos)
          /\ \A i \in 1..Len(todos) :
                 /\ \A f \in StoredFields : todos'[i][f] = todos[i][f]
                 /\ todos'[i].completed = todos[i].completed]_vars

\* a round trip has been made, later than its last change, of a completed item
\* with a priority, a category and a due date that are not the defaults
C6_Witness ==
    /\ last.op = "save_load"
    /\ \E i \in 1..Len(todos) :
           /\ todos[i].completed
           /\ todos[i].updated_at # IsoFormat(now)
           /\ todos[i].priority = "Low"
           /\ todos[i].category = "home"
           /\ todos[i].due_date = <<2024, 3, 1>>

\* the file does not parse as JSON, or one of its entries has no id or no title
Malformed(f) ==
    \/ f.kind = "garbage"
    \/ /\ f.kind = "json"
       /\ \E i \in 1..Len(f.data) :
              "id" \notin DOMAIN f.data[i] \/ "title" \notin DOMAIN f.data[i]

\* C7: a TodoManager created over a file that fails to parse as JSON, or in
\* which an entry lacks id or title, starts with an empty collection and
\* next_id = 1: no entry is kept, the well-formed ones neither, and no error
\* reaches the caller.
C7_MalformedFileLoadsEmpty ==
    [][(last'.op = "__init__" /\ Malformed(file)) =>
          /\ todos' = <<>>
          /\ next_id' = 1
          /\ last'.ret = "-"
          /\ last'.exc = ""]_vars

\* a manager has been created over a file of two entries, one of them whole
C7_Witness ==
    /\ last.op = "__init__"
    /\ file.kind = "json"
    /\ Len(file.data) = 2
    /\ Malformed(file)
    /\ \E i \in 1..2 : {"id", "title"} \subseteq DOMAIN file.data[i]
    /\ todos = <<>>
    /\ next_id = 1

(***************************************************************************)
(* Properties of the ids.                                                  *)
(***************************************************************************)
\* the collection and the id counter of the store that runs
Collection == IF variant = "json" THEN todos ELSE tasks

Counter == IF variant = "json" THEN next_id ELSE core_next_id

\* the step creates an item: by add_todo, by add_task or by regeneration
CreatesItem ==
    /\ last'.op \in {"add_todo", "add_task", "toggle_completion"}
    /\ Len(Collection') = Len(Collection) + 1

NewId == Collection'[Len(Collection')].id

MaxPlusOne(c) == IF c = <<>> THEN 1 ELSE SetMax(Ids(c)) + 1

AddReturnsItem == last'.op \in {"add_todo", "add_task"} /\ last'.ret = "item"

\* the added item is not completed, and its id is new to the collection
AddedItemIsFresh ==
    /\ Len(Collection') = Len(Collection) + 1
    /\ Collection'[Len(Collection')].id = last'.id
    /\ last'.out[1].id = last'.id
    /\ IF variant = "json"
       THEN ~last'.out[1].completed /\ ~todos'[Len(todos')].completed
       ELSE last'.out[1].status = "pending" /\ tasks'[Len(tasks')].status = "pending"
    /\ last'.id \notin Ids(Collection)

\* C9 as stated: an add with a valid title and description yields an item with
\* completed=false (status pending in the in-memory variant) whose id no item
\* of the collection has and which is greater than the id every earlier add
\* returned, whatever was deleted in between.
C9_FreshIncreasingId ==
    [][AddReturnsItem => (AddedItemIsFresh /\ last'.id > h_max_ever)]_vars

\* C9 amended: the same, with the id greater than the id returned by every
\* earlier add made on the same store since it was constructed or loaded.
C9_IncreasingSinceLoad ==
    [][AddReturnsItem => (AddedItemIsFresh /\ last'.id > h_max_added)]_vars

\* add_task has returned id 3 after the tasks 1 and 2 were deleted
C9_Witness ==
    /\ variant = "memory"
    /\ last.op = "add_task"
    /\ last.ret = "item"
    /\ last.id = 3
    /\ Ids(tasks) = {3}
    /\ h_max_ever = 3

\* C10: ids are reused across a reload: when a new TodoManager is created on
\* the file after every item was removed, the next add_todo returns id 1.
C10_ReloadEmptyRestartsAtOne ==
    [][(last.op = "__init__" /\ todos = <<>> /\ file = [kind |-> "json", data |-> <<>>]
        /\ last'.op = "add_todo" /\ last'.ret = "item") =>
          /\ last'.id = 1
          /\ todos'[1].id = 1]_vars

\* after add_todo had returned the ids 1 and 2, it has returned id 1 again
C10_Witness ==
    /\ h_max_ever = 2
    /\ last.op = "add_todo"
    /\ last.ret = "item"
    /\ last.id = 1
    /\ Len(todos) = 1
    /\ todos[1].id = 1

(***************************************************************************)
(* C11: deleting an id that no item has returns False (404 from the route  *)
(* of the web backend) and leaves the collection, the next id and, in the  *)
(* JSON store, the file as they were.                                      *)
(***************************************************************************)
DeletesMissingTodo == variant = "json" /\ last'.op = "remove_todo" /\ last'.id \notin Ids(todos)

DeletesMissingTask == variant = "memory" /\ last'.op = "delete_task" /\ last'.id \notin Ids(tasks)

DeletesMissingRow ==
    /\ variant = "web"
    /\ last'.op = "delete_existing_task"
    /\ last'.caller = last'.user_id
    /\ last'.id \notin Ids(db)

C11_DeleteMissingId ==
    [][/\ DeletesMissingTodo =>
           last'.ret = "False" /\ UNCHANGED <<todos, next_id, file>>
       /\ DeletesMissingTask =>
           last'.ret = "False" /\ UNCHANGED <<tasks, core_next_id>>
       /\ DeletesMissingRow =>
           last'.ret = "404" /\ UNCHANGED <<db, db_next_id>>]_vars

\* remove_todo has answered False in a store that holds an item and has
\* written its file
C11_Witness ==
    /\ variant = "json"
    /\ last.op = "remove_todo"
    /\ last.ret = "False"
    /\ todos # <<>>
    /\ file # NoFile

(***************************************************************************)
(* C12: update_todo on an existing item that rejects a priority, a due     *)
(* date or a recurring pattern returns False and has no partial effect:    *)
(* every field of every item and the file are as before the call.          *)
(***************************************************************************)
RejectedUpdate ==
    /\ variant = "json"
    /\ last'.op = "update_todo"
    /\ last'.id \in Ids(todos)
    /\ last'.ret = "False"

C12_RejectedUpdateHasNoEffect == [][RejectedUpdate => UNCHANGED <<todos, file>>]_vars

(***************************************************************************)
(* C13: add_todo called with an invalid priority, due-date format or       *)
(* recurring pattern returns None and changes nothing: no item is added,   *)
(* next_id is not consumed and the file is not rewritten.                  *)
(***************************************************************************)
InvalidAddArgs(a) ==
    \/ a.priority \notin {"High", "Medium", "Low"}
    \/ a.due_date # <<>> /\ Len(a.due_date) # 3
    \/ a.recurring_pattern \notin {"", "Daily", "Weekly", "Monthly"}

C13_RejectedAddChangesNothing ==
    [][\A a \in RejectedAdds \cup {session.add} :
           \A t1 \in NowAfter(now) : \A t2 \in NowAfter(t1) :
               InvalidAddArgs(a) /\ AddTodo(a, t1, t2) =>
                   last'.ret = "None" /\ UNCHANGED <<todos, next_id, file>>]_vars

\* add_todo has answered None in a store that holds an item
C13_Witness ==
    /\ variant = "json"
    /\ last.op = "add_todo"
    /\ last.ret = "None"
    /\ todos # <<>>
    /\ next_id > 1

(***************************************************************************)
(* C14: an empty or blank title is rejected by the add operation of both   *)
(* CLI stores and no update makes a stored title empty, so every item held *)
(* by either store has a non-empty title.                                  *)
(***************************************************************************)
C14_TitlesNeverEmpty ==
    /\ \A i \in 1..Len(todos) : Strip(todos[i].title) # ""
    /\ \A i \in 1..Len(tasks) : Strip(tasks[i].title) # ""

(***************************************************************************)
(* The web backend: the request of a step and the rows it addresses.       *)
(***************************************************************************)
TaskRoutes ==
    {"create_new_task", "read_tasks", "read_task", "update_existing_task",
     "delete_existing_task", "toggle_task_complete"}

\* the step is a request to one of these routes whose body passes the
\* validation of its schema
IsRequest(routes) ==
    /\ variant = "web"
    /\ last'.op \in routes
    /\ last'.op = "create_new_task" => ValidTaskCreate(last'.arg)
    /\ last'.op = "update_existing_task" => ValidTaskUpdate(last'.arg)

\* a row of the table with this task id and this owner
OwnedRowExists(table, task_id, user_id) ==
    \E i \in 1..Len(table) : table[i].id = task_id /\ table[i].user_id = user_id

(***************************************************************************)
(* C15: on each of the six task routes a request of an authenticated user  *)
(* whose id differs from the path user_id is answered 403, whether or not  *)
(* the addressed task exists, and changes no task.                         *)
(***************************************************************************)
C15_MismatchIsForbidden ==
    [][IsRequest(TaskRoutes) /\ last'.caller # last'.user_id =>
           last'.ret = "403" /\ UNCHANGED <<db, db_next_id>>]_vars

\* a delete by another user of a task that exists has been answered 403
C15_Witness ==
    /\ variant = "web"
    /\ last.op = "delete_existing_task"
    /\ last.caller # last.user_id
    /\ last.ret = "403"
    /\ OwnedRowExists(db, last.id, last.user_id)

(***************************************************************************)
(* C16: a read, update, delete or complete request is answered 404 exactly *)
(* when the caller's id equals the path user_id and no task has both that  *)
(* task id and that user_id; a caller whose id differs never gets 404.     *)
(***************************************************************************)
C16_NotFoundAfterOwnership ==
    [][IsRequest(TaskRoutes \ {"create_new_task", "read_tasks"}) =>
           (last'.ret = "404" <=>
               /\ last'.caller = last'.user_id
               /\ ~OwnedRowExists(db, last'.id, last'.user_id))]_vars

\* a complete request of a user for a task of another user has been
\* answered 404
C16_Witness ==
    /\ variant = "web"
    /\ last.op = "toggle_task_complete"
    /\ last.ret = "404"
    /\ last.caller = last.user_id
    /\ \E i \in 1..Len(db) : db[i].id = last.id /\ db[i].user_id # last.user_id

(***************************************************************************)
(* C17: a task created through POST is owned by the authenticated caller   *)
(* (the path user_id) even when the body names another user_id, and starts *)
(* with completed = false; no request changes the user_id of a task.       *)
(***************************************************************************)
CreatesRow == IsRequest({"create_new_task"}) /\ last'.ret = "200"

OwnersKept ==
    \A i \in 1..Len(db) : \A j \in 1..Len(db') :
        db[i].id = db'[j].id => db[i].user_id = db'[j].user_id

C17_OwnerIsCaller ==
    [][/\ CreatesRow =>
           /\ Len(db') = Len(db) + 1
           /\ SubSeq(db', 1, Len(db)) = db
           /\ db'[Len(db')].id \notin Ids(db)
           /\ db'[Len(db')].user_id = last'.caller
           /\ db'[Len(db')].user_id = last'.user_id
           /\ db'[Len(db')].completed = FALSE
       /\ variant = "web" => OwnersKept]_vars

\* user 1 has created a task with a body that names user 2, and has then
\* completed it
C17_Witness ==
    /\ variant = "web"
    /\ NamingCreate \in session.creates
    /\ last.op = "toggle_task_complete"
    /\ last.ret = "200"
    /\ last.caller = 1
    /\ OwnedRowExists(db, last.id, 1)

(***************************************************************************)
(* C18: listing a user's tasks returns exactly the tasks of that user,     *)
(* those whose completed flag equals the parameter when it is given, each  *)
(* once, ordered by created_at from newest to oldest.                      *)
(***************************************************************************)
ListsTasks == IsRequest({"read_tasks"}) /\ last'.ret = "200"

Wanted(table, user_id, completed) ==
    {r \in Range(table) :
        r.user_id = user_id /\ (completed.kind = "value" => r.completed = completed.v)}

C18_ListIsFilteredAndOrdered ==
    [][ListsTasks =>
           LET result == last'.out
           IN /\ Range(result) = Wanted(db, last'.user_id, last'.arg)
              /\ Len(result) = Cardinality(Range(result))
              /\ \A i, j \in 1..Len(result) :
                     i < j => result[i].created_at >= result[j].created_at]_vars

\* a list with the parameter given has returned two tasks, the newer one,
\* which is the later row of the table, first
C18_Witness ==
    /\ variant = "web"
    /\ last.op = "read_tasks"
    /\ last.arg.kind = "value"
    /\ Len(last.out) = 2
    /\ Len(db) = 2
    /\ last.out[1] = db[2]
    /\ last.out[1].created_at > last.out[2].created_at

(***************************************************************************)
(* C20: a successful complete request sets the flag of the task to the     *)
(* value the request carries, whatever it was before, also when the same   *)
(* request is repeated, and changes no other task.                         *)
(***************************************************************************)
CompletesTask == IsRequest({"toggle_task_complete"}) /\ last'.ret = "200"

C20_CompleteSetsFlag ==
    [][CompletesTask =>
           /\ Len(db') = Len(db)
           /\ \A i \in 1..Len(db) :
                  IF db[i].id = last'.id
                  THEN /\ db'[i].completed = last'.arg
                       /\ db'[i].id = db[i].id
                       /\ db'[i].user_id = db[i].user_id
                       /\ db'[i].title = db[i].title
                       /\ db'[i].description = db[i].description
                       /\ db'[i].created_at = db[i].created_at
                  ELSE db'[i] = db[i]]_vars

\* one of two tasks has been set to completed = true by a request
C20_Witness ==
    /\ variant = "web"
    /\ last.op = "toggle_task_complete"
    /\ last.ret = "200"
    /\ last.arg = TRUE
    /\ Len(db) = 2
    /\ \E i, j \in 1..2 : db[i].id = last.id /\ db[i].completed /\ ~db[j].completed

(***************************************************************************)
(* C19: two TodoManager processes that loaded the same file hold separate  *)
(* collections and next_id counters; when the first has added an item and  *)
(* the second then adds or removes one, the file after the second save     *)
(* holds the second's collection without the first's item, and an item the *)
(* second adds has the id of the first's item.                             *)
(***************************************************************************)
FirstsItem == todos[Len(todos)]

\* both processes held the collection of other_todos, as loaded from the
\* file, and the first has since added an item
FirstIsAhead ==
    /\ variant = "json"
    /\ other_next_id = MaxPlusOne(other_todos)
    /\ Len(todos) = Len(other_todos) + 1
    /\ SubSeq(todos, 1, Len(other_todos)) = other_todos
    /\ FirstsItem.id = MaxPlusOne(other_todos)
    /\ next_id = FirstsItem.id + 1

SecondAdds == Len(other_todos') = Len(other_todos) + 1

SecondRemoves == Len(other_todos') = Len(other_todos) - 1

C19_LostUpdate ==
    [][FirstIsAhead /\ (SecondAdds \/ SecondRemoves) =>
           /\ UNCHANGED <<todos, next_id>>
           /\ FileHolds(other_todos)'
           /\ SecondAdds =>
                  /\ other_todos'[Len(other_todos')].id = FirstsItem.id
                  /\ SubSeq(other_todos', 1, Len(other_todos)) = other_todos
                  /\ Len(file'.data) = Len(todos)
           /\ SecondRemoves =>
                  /\ FirstsItem.id \notin Ids(other_todos')
                  /\ Len(file'.data) < Len(todos) - 1]_vars

\* each process holds an item loaded from the file and an item it has added
\* itself; the two added items differ and have the same id, and the file
\* holds the second's
C19_Witness ==
    /\ variant = "json"
    /\ Len(todos) = 2
    /\ Len(other_todos) = 2
    /\ todos[1] = other_todos[1]
    /\ todos[2] # other_todos[2]
    /\ todos[2].id = other_todos[2].id
    /\ FileHolds(other_todos)

(***************************************************************************)
(* C21: once a delete request for an owned task has succeeded, a following *)
(* read of that task id by the same user is answered 404 and the user's    *)
(* list does not contain it; every other task is still there, unchanged.   *)
(***************************************************************************)
DeletesTask == IsRequest({"delete_existing_task"}) /\ last'.ret = "200"

\* the request of the step follows a successful delete and is made by the
\* same user on the same path
FollowsDelete ==
    /\ variant = "web"
    /\ last.op = "delete_existing_task"
    /\ last.ret = "200"
    /\ last'.caller = last.caller
    /\ last'.user_id = last.user_id

RowsOtherThan(table, task_id) == LET Other(r) == r.id # task_id IN SelectSeq(table, Other)

C21_DeletedTaskIsGone ==
    [][/\ DeletesTask =>
           /\ last'.id \in Ids(db)
           /\ last'.id \notin Ids(db')
           /\ db' = RowsOtherThan(db, last'.id)
       /\ FollowsDelete /\ last'.op = "read_task" /\ last'.id = last.id =>
           last'.ret = "404"
       /\ FollowsDelete /\ last'.op = "read_tasks" =>
           /\ last'.ret = "200"
           /\ \A k \in 1..Len(last'.out) : last'.out[k].id # last.id
           /\ Range(last'.out) = Wanted(db, last'.user_id, last'.arg)]_vars

\* a task has been deleted by its owner while another task is stored
C21_Witness ==
    /\ variant = "web"
    /\ last.op = "delete_existing_task"
    /\ last.ret = "200"
    /\ last.id \notin Ids(db)
    /\ db # <<>>

(***************************************************************************)
(* C22: a successful update request sets exactly the fields its body       *)
(* carries (among title, description, completed) to the values supplied,   *)
(* and a following read returns them; the other fields of the three, the   *)
(* id, user_id and created_at of the task and all other tasks stay.        *)
(***************************************************************************)
UpdatesTask == IsRequest({"update_existing_task"}) /\ last'.ret = "200"

\* the value a field has after a body: the one supplied, null being None,
\* or the old one when the body does not carry the field
Supplied(field, old, none) ==
    IF field.kind = "value" THEN field.v ELSE IF field.kind = "null" THEN none ELSE old

C22_UpdateSetsGivenFields ==
    [][/\ UpdatesTask =>
           /\ Len(db') = Len(db)
           /\ \A i \in 1..Len(db) :
                  IF db[i].id = last'.id
                  THEN /\ db'[i].title = Supplied(last'.arg.title, db[i].title, db[i].title)
                       /\ db'[i].description =
                              IF last'.arg.description.kind = "value"
                              THEN <<last'.arg.description.v>>
                              ELSE Supplied(last'.arg.description, db[i].description, <<>>)
                       /\ db'[i].completed =
                              Supplied(last'.arg.completed, db[i].completed, db[i].completed)
                       /\ db'[i].id = db[i].id
                       /\ db'[i].user_id = db[i].user_id
                       /\ db'[i].created_at = db[i].created_at
                       /\ last'.out = <<db'[i]>>
                  ELSE db'[i] = db[i]
       /\ /\ variant = "web"
          /\ last.op = "update_existing_task"
          /\ last.ret = "200"
          /\ last'.op = "read_task"
          /\ last'.caller = last.caller
          /\ last'.user_id = last.user_id
          /\ last'.id = last.id
          => last'.ret = "200" /\ last'.out = last.out]_vars

\* an update that carries only a null description has been applied to a
\* completed task that had one, while another task is stored
C22_Witness ==
    /\ variant = "web"
    /\ last.op = "update_existing_task"
    /\ last.ret = "200"
    /\ last.arg = NullDescriptionUpdate
    /\ Len(db) = 2
    /\ \E i, j \in 1..2 :
           /\ db[i].id = last.id
           /\ db[i].description = <<>>
           /\ db[i].completed
           /\ db[j].description = <<"d">>

(***************************************************************************)
(* C23: user emails are unique: after any signup requests, also two for    *)
(* the same email whose check and insert interleave, no two stored users   *)
(* have the same email; a signup whose check finds the email stored is     *)
(* answered 400 and creates no user.                                       *)
(***************************************************************************)
EmailsDistinct(table) ==
    \A i, j \in 1..Len(table) : i # j => table[i].email # table[j].email

\* the step is the check of a signup request, with or without its response
ChecksSignup ==
    /\ variant = "signup"
    /\ last'.op = "register_user"
    /\ last'.ret \in {"-", "400"}

C23_EmailsUnique ==
    [][/\ variant = "signup" => EmailsDistinct(users')
       /\ ChecksSignup =>
           /\ UNCHANGED users
           /\ last'.ret = "400" <=> \E i \in 1..Len(users) : users[i].email = last'.arg]_vars

\* two signups for one email have both passed the check; one has created
\* the user and the commit of the other has failed
C23_Witness ==
    /\ variant = "signup"
    /\ last.op = "register_user"
    /\ last.ret = "500"
    /\ Cardinality({i \in 1..Len(users) : users[i].email = last.arg}) = 1

(***************************************************************************)
(* C24: every update or toggle that changes an item (update_todo and       *)
(* toggle_completion in the JSON store, the update and complete requests   *)
(* of the web backend) sets the item's updated_at to the time of the       *)
(* operation and keeps its id and created_at; updated_at never decreases   *)
(* and is never earlier than created_at.                                   *)
(***************************************************************************)
\* the clock reading t was taken during the step
DuringStep(t) == now <= t /\ t <= now'

ChangedItemIsStamped ==
    /\ variant = "json"
    /\ last'.op \in {"update_todo", "toggle_completion"}
    => \A i \in 1..Len(todos) : \A j \in 1..Len(todos') :
           todos[i].id = last'.id /\ todos'[j].id = last'.id /\ todos'[j] # todos[i] =>
               /\ todos'[j].updated_at # NoneVal
               /\ DuringStep(FromIsoTime(todos'[j].updated_at))
               /\ todos'[j].created_at = todos[i].created_at

ChangedRowIsStamped ==
    /\ variant = "web"
    /\ last'.op \in {"update_existing_task", "toggle_task_complete"}
    => \A i \in 1..Len(db) : \A j \in 1..Len(db') :
           db[i].id = last'.id /\ db'[j].id = last'.id /\ db'[j] # db[i] =>
               /\ DuringStep(db'[j].updated_at)
               /\ db'[j].created_at = db[i].created_at

StampsInOrder ==
    /\ \A j \in 1..Len(todos') :
           FromIsoTime(todos'[j].updated_at) >= FromIsoTime(todos'[j].created_at)
    /\ \A i \in 1..Len(todos) : \A j \in 1..Len(todos') :
           todos[i].id = todos'[j].id /\ last'.op # "__init__" =>
               FromIsoTime(todos'[j].updated_at) >= FromIsoTime(todos[i].updated_at)
    /\ \A j \in 1..Len(db') : db'[j].updated_at >= db'[j].created_at
    /\ \A i \in 1..Len(db) : \A j \in 1..Len(db') :
           db[i].id = db'[j].id => db'[j].updated_at >= db[i].updated_at

C24_ChangesRefreshUpdatedAt ==
    [][ChangedItemIsStamped /\ ChangedRowIsStamped /\ StampsInOrder]_vars

\* C25: in one TodoManager process, whatever sequence of add_todo,
\* update_todo, remove_todo, toggle_completion (with its regeneration) and
\* list_todos is made on a collection loaded from a file of pairwise distinct
\* ids, the ids of the collection stay pairwise distinct and next_id stays
\* strictly greater than every one of them.
C25_IdsDistinctBelowCounter ==
    variant = "json" =>
        /\ \A i, j \in 1..Len(todos) : todos[i].id = todos[j].id => i = j
        /\ \A i \in 1..Len(todos) : todos[i].id < next_id

\* a manager loaded from a file holding the ids 1 and 2 has removed item 1 and
\* regenerated item 2 as item 3
C25_Witness ==
    /\ variant = "json"
    /\ last.op = "toggle_completion"
    /\ last.ret = "True"
    /\ h_max_added = 0
    /\ Len(todos) = 2
    /\ Ids(todos) = {2, 3}
    /\ next_id = 4

\* C26: toggle_completion is all-or-nothing for every item the store accepts,
\* a recurring item whose due_date has the shape YYYY-MM-DD but is no calendar
\* date included: the call returns True without raising, and afterwards the
\* completed flag, the regenerated item and the file agree (the flag is
\* flipped, a recurring item that was completed has its regenerated item, and
\* the file holds the collection).
C26_ToggleAllOrNothing ==
    [][IsToggleOfItem =>
          /\ last'.exc = ""
          /\ last'.ret = "True"
          /\ todos'[ToggledIndex].completed = ~todos[ToggledIndex].completed
          /\ CompletesRecurring => Len(todos') = Len(todos) + 1
          /\ FileHolds(todos)']_vars

\* the stored items a call of list_todos is to return
Listed(show_completed) ==
    {todos[i] : i \in {j \in 1..Len(todos) : show_completed \/ ~todos[j].completed}}

\* item x comes no later than item y in the order asked for
ListedBefore(x, y, sort_by_priority) ==
    LET tx == FromIsoTime(x.created_at)
        ty == FromIsoTime(y.created_at)
        px == PriorityOrder(x.priority)
        py == PriorityOrder(y.priority)
    IN IF sort_by_priority THEN px > py \/ (px = py /\ tx >= ty) ELSE tx >= ty

\* C27: list_todos is a pure query: it leaves the collection (the order of
\* self.todos included), next_id and the file unchanged, and it returns the
\* stored items, the incomplete ones only when show_completed is false, newest
\* first, or by priority High, Medium, Low and then newest first.
C27_ListIsPureQuery ==
    [][\A show_completed \in BOOLEAN, sort_by_priority \in BOOLEAN :
          ListTodos(show_completed, sort_by_priority) =>
              /\ UNCHANGED <<todos, next_id, file>>
              /\ Len(last'.out) = Cardinality(Listed(show_completed))
              /\ {last'.out[i] : i \in 1..Len(last'.out)} = Listed(show_completed)
              /\ \A i, j \in 1..Len(last'.out) :
                     i < j => ListedBefore(last'.out[i], last'.out[j], sort_by_priority)]_vars

\* the stored task with this id, as a set (empty when there is none)
StoredStatus(ts, id) == {ts[i].status : i \in {j \in 1..Len(ts) : ts[j].id = id}}

\* C28: in TodoCore every task starts with status 'pending';
\* mark_task_completed sets 'completed', and on a completed task it changes
\* nothing and returns True again; no operation takes a completed task back to
\* 'pending'; and changing a Task object returned by add_task, update_task or
\* view_all_tasks does not change the stored task.
C28_CompletionIsOneWay ==
    [][variant = "memory" =>
          /\ \A title \in CoreTitles, description \in CoreDescriptions :
                 \A t \in NowAfter(now) :
                     (add_task(title, description, t) /\ last'.ret = "item") =>
                         /\ tasks'[Len(tasks')].status = "pending"
                         /\ last'.out[1].status = "pending"
          /\ (last'.op = "mark_task_completed" /\ last'.id \in Ids(tasks)) =>
                 /\ last'.ret = "True"
                 /\ StoredStatus(tasks', last'.id) = {"completed"}
                 /\ StoredStatus(tasks, last'.id) = {"completed"} => UNCHANGED tasks
          /\ \A id \in Ids(tasks) :
                 StoredStatus(tasks, id) = {"completed"} =>
                     StoredStatus(tasks', id) \subseteq {"completed"}
          /\ \A k \in 1..MaxTodos, field \in CallerFields :
                 \A value \in CallerValues(field) :
                     ChangeReturned(k, field, value) => UNCHANGED tasks]_vars

\* the caller has set a Task that view_all_tasks returned back to 'pending',
\* and the stored task is still 'completed'
C28_Witness ==
    /\ variant = "memory"
    /\ last.op = "view_all_tasks"
    /\ \E k \in 1..Len(last.out) :
           /\ last.out[k].status = "pending"
           /\ StoredStatus(tasks, last.out[k].id) = {"completed"}

====
